---- MODULE Spec2Model ----
(***************************************************************************)
(* Event-to-alert pipeline of the supply-chain stream processor            *)
(* (real_time_teams_pipeline.py) and of the Teams notification engine      *)
(* (teams_integration_engine.py).                                          *)
(*                                                                         *)
(* Numbers are integers; a ratio is kept as an exact fraction [num, den]   *)
(* and compared with a threshold given in percent by cross-multiplication. *)
(* For the small integers used here the IEEE-754 quotient and the exact    *)
(* quotient compare alike with 0.10, 0.25, 0.15 and 1.50.                  *)
(***************************************************************************)
EXTENDS Integers, Sequences, FiniteSets, TLC

VARIABLES
    metrics,        \* self.metrics: the four counters
    db,             \* db.supply_chain_events: the documents, in insertion order
    cache,          \* redis: set of event_ids with a cached event document
    sendLog,        \* every _send_webhook_message call, in order
    clock,          \* datetime.utcnow(): a later call reads a later time
    teams_engine,   \* self.teams_engine is set (a webhook URL is configured)
    processed,      \* history: one record per _process_event call
    analysis,       \* the last analyzer call: its event and what it returned
    pc,             \* where main() is: created, poll, batch, exited, init_failed
    batch,          \* the messages of the polled batch not yet processed
    conns,          \* the connections that are open
    life,           \* history of main(): why the loop ended, what it left undone
    health          \* the last get_processor_health call and what it returned

loopVars == <<pc, batch, conns, life, health>>

vars == <<metrics, db, cache, sendLog, clock, teams_engine, processed, analysis, loopVars>>

---------------------------------------------------------------------------
(* Bounds of the model *)

\* numeric payload fields range over -1..MaxLevel (plus the boundary values)
MaxLevel == 6
\* number of messages handed to _process_event in one run
MaxMsgs == 2
\* number of direct send_supply_chain_alert calls in one run
MaxSends == 2

\* the messages one poll returns at most
MaxBatch == 2

\* the polls of a run
MaxPolls == 2

---------------------------------------------------------------------------
(* JSON values of a payload *)

Num(n) == [t |-> "num", n |-> n, s |-> <<>>]
\* a string holding the decimal text of n, e.g. "45"
NumStr(n) == [t |-> "numstr", n |-> n, s |-> <<>>]
\* a string, as its sequence of characters
Str(s) == [t |-> "str", n |-> 0, s |-> s]
\* null
Null == [t |-> "null", n |-> 0, s |-> <<>>]
\* marks a key left out of a payload under construction
Absent == [t |-> "absent", n |-> 0, s |-> <<>>]

\* the payload mapping itself: the keys that are present
Strip(f) == [k \in {x \in DOMAIN f : f[x] # Absent} |-> f[k]]

\* dict.get(key, default)
get(data, key, default) == IF key \in DOMAIN data THEN data[key] ELSE default

\* float(x): numbers and numeric strings convert, null and other strings raise
float_none_as_zero(x) ==
    IF x.t \in {"num", "numstr"}
    THEN [ok |-> TRUE, n |-> x.n]
    ELSE [ok |-> x.t = "null", n |-> 0]

float(x) ==
    IF x.t \in {"num", "numstr"}
    THEN [ok |-> TRUE, n |-> x.n]
    ELSE [ok |-> FALSE, n |-> 0]

\* one character of str.lower()
LowerChar(c) ==
    CASE c = "D" -> "d"
      [] c = "E" -> "e"
      [] c = "L" -> "l"
      [] c = "A" -> "a"
      [] c = "Y" -> "y"
      [] OTHER -> c

lower(s) == [i \in DOMAIN s |-> LowerChar(s[i])]

\* sub in s
Contains(sub, s) ==
    \E i \in 1..(Len(s) - Len(sub) + 1) : SubSeq(s, i, i + Len(sub) - 1) = sub

DigitChar == <<"0", "1", "2", "3", "4", "5", "6", "7", "8", "9">>

\* the decimal text of n >= 0, as str() writes it
RECURSIVE Digits(_)
Digits(n) ==
    IF n < 10 THEN <<DigitChar[n + 1]>>
    ELSE Digits(n \div 10) \o <<DigitChar[(n % 10) + 1]>>

---------------------------------------------------------------------------
(* Exact fractions *)

Rat(a, b) == [num |-> a, den |-> b]

Abs(x) == IF x < 0 THEN -x ELSE x

\* a / b: raises ZeroDivisionError when b = 0
Div(a, b) ==
    IF b = 0 THEN [ok |-> FALSE, r |-> Rat(0, 1)]
    ELSE IF b < 0 THEN [ok |-> TRUE, r |-> Rat(-a, -b)]
    ELSE [ok |-> TRUE, r |-> Rat(a, b)]

\* r <= pct / 100 and r >= pct / 100, for den > 0
LeqPct(r, pct) == r.num * 100 <= pct * r.den
GeqPct(r, pct) == r.num * 100 >= pct * r.den

RatEq(p, q) == p.num * q.den = q.num * p.den

---------------------------------------------------------------------------
(* Alert thresholds, in percent (supplier_delay in hours) *)

thresholds ==
    [inventory_critical |-> 10,
     inventory_warning  |-> 25,
     demand_spike       |-> 150,
     cost_variance      |-> 15,
     supplier_delay     |-> 24]

---------------------------------------------------------------------------
(* SupplyChainEvent and SupplyChainAlert *)

SupplyChainEvent(event_id, event_type, timestamp, source_system, data) ==
    [event_id |-> event_id,
     event_type |-> event_type,
     timestamp |-> timestamp,
     source_system |-> source_system,
     data |-> data,
     processing_status |-> "pending",
     teams_notification_sent |-> FALSE]

SupplyChainAlert_values_swapped(prefix, event, alert_type, priority, current_value, threshold_value, estimated_cost_impact, now, lead, team) ==
    [alert_id |-> <<prefix, event.event_id>>,
     alert_type |-> alert_type,
     priority |-> priority,
     current_value |-> threshold_value,
     threshold_value |-> current_value,
     estimated_cost_impact |-> estimated_cost_impact,
     urgency_deadline |-> now + lead,
     responsible_team |-> team,
     created_at |-> now]

SupplyChainAlert_id_from_time(prefix, event, alert_type, priority, current_value, threshold_value, estimated_cost_impact, now, lead, team) ==
    [alert_id |-> <<prefix, Str(Digits(now))>>,
     alert_type |-> alert_type,
     priority |-> priority,
     current_value |-> current_value,
     threshold_value |-> threshold_value,
     estimated_cost_impact |-> estimated_cost_impact,
     urgency_deadline |-> now + lead,
     responsible_team |-> team,
     created_at |-> now]

\* now is datetime.utcnow() at construction; lead the timedelta, in hours
SupplyChainAlert(prefix, event, alert_type, priority, current_value, threshold_value, estimated_cost_impact, now, lead, team) ==
    [alert_id |-> <<prefix, event.event_id>>,
     alert_type |-> alert_type,
     priority |-> priority,
     current_value |-> current_value,
     threshold_value |-> threshold_value,
     estimated_cost_impact |-> estimated_cost_impact,
     urgency_deadline |-> now + lead,
     responsible_team |-> team,
     created_at |-> now]

\* what an analyzer call leaves behind: the list it returns, the exception its
\* try block caught and logged ("none" if none), and the ratio it computed
NoRatio == [ok |-> FALSE, r |-> Rat(0, 1)]
Returned(alerts, ratio) == [alerts |-> alerts, error |-> "none", ratio |-> ratio]
Raised(error, ratio) == [alerts |-> <<>>, error |-> error, ratio |-> ratio]

---------------------------------------------------------------------------
(* The ratio computations and their zero guards *)

inventory_ratio_nonneg_guard(current_level, normal_level) ==
    IF normal_level >= 0 THEN Div(current_level, normal_level)
    ELSE [ok |-> TRUE, r |-> Rat(0, 1)]

\* current_level / normal_level if normal_level > 0 else 0
inventory_ratio(current_level, normal_level) ==
    IF normal_level > 0 THEN Div(current_level, normal_level)
    ELSE [ok |-> TRUE, r |-> Rat(0, 1)]

\* forecasted_demand / historical_average if historical_average > 0 else 1
demand_ratio(forecasted_demand, historical_average) ==
    IF historical_average > 0 THEN Div(forecasted_demand, historical_average)
    ELSE [ok |-> TRUE, r |-> Rat(1, 1)]

\* abs(new_cost - previous_cost) / previous_cost if previous_cost > 0 else 0
cost_variance(new_cost, previous_cost) ==
    IF previous_cost > 0 THEN Div(Abs(new_cost - previous_cost), previous_cost)
    ELSE [ok |-> TRUE, r |-> Rat(0, 1)]

---------------------------------------------------------------------------
(* The analyzers *)

inventory_tier_warning_first(ratio) ==
    IF LeqPct(ratio, thresholds.inventory_warning) THEN "warning"
    ELSE IF LeqPct(ratio, thresholds.inventory_critical) THEN "critical"
    ELSE "none"

\* the if / elif of _analyze_inventory_event: critical before warning
inventory_tier(ratio) ==
    IF LeqPct(ratio, thresholds.inventory_critical) THEN "critical"
    ELSE IF LeqPct(ratio, thresholds.inventory_warning) THEN "warning"
    ELSE "none"

_analyze_inventory_event(event, now) ==
    LET data == event.data
        current_level == float(get(data, "current_level", Num(0)))
        normal_level == float(get(data, "normal_level", Num(100)))
        reorder_point == float(get(data, "reorder_point", Num(20)))
        ratio == inventory_ratio(current_level.n, normal_level.n)
        tier == inventory_tier(ratio.r)
        shortage == float(get(data, "shortage_cost_impact", Num(50000)))
        potential == float(get(data, "potential_cost_impact", Num(15000)))
    IN  IF ~(current_level.ok /\ normal_level.ok /\ reorder_point.ok)
        THEN Raised("ValueError", NoRatio)
        ELSE IF ~ratio.ok THEN Raised("ZeroDivisionError", NoRatio)
        ELSE IF tier = "critical"
        THEN IF ~shortage.ok THEN Raised("ValueError", ratio)
             ELSE Returned(<<SupplyChainAlert("INV-CRIT", event,
                      "material_shortage", "critical",
                      Rat(current_level.n, 1), Rat(reorder_point.n, 1),
                      Rat(shortage.n, 1), now, 24, "Procurement Team")>>, ratio)
        ELSE IF tier = "warning"
        THEN IF ~potential.ok THEN Raised("ValueError", ratio)
             ELSE Returned(<<SupplyChainAlert("INV-WARN", event,
                      "material_shortage", "high",
                      Rat(current_level.n, 1), Rat(reorder_point.n, 1),
                      Rat(potential.n, 1), now, 72, "Supply Chain Team")>>, ratio)
        ELSE Returned(<<>>, ratio)

demand_fires_strict(ratio) == ~LeqPct(ratio, thresholds.demand_spike)

\* demand_ratio >= self.thresholds["demand_spike"]
demand_fires(ratio) == GeqPct(ratio, thresholds.demand_spike)

_analyze_demand_event(event, now) ==
    LET data == event.data
        forecasted_demand == float(get(data, "forecasted_demand", Num(0)))
        historical_average == float(get(data, "historical_average", Num(100)))
        ratio == demand_ratio(forecasted_demand.n, historical_average.n)
        additional_cost == float(get(data, "additional_cost", Num(25000)))
    IN  IF ~(forecasted_demand.ok /\ historical_average.ok)
        THEN Raised("ValueError", NoRatio)
        ELSE IF ~ratio.ok THEN Raised("ZeroDivisionError", NoRatio)
        ELSE IF demand_fires(ratio.r)
        THEN IF ~additional_cost.ok THEN Raised("ValueError", ratio)
             ELSE Returned(<<SupplyChainAlert("DEMAND-SPIKE", event,
                      "demand_spike", "high",
                      Rat(forecasted_demand.n, 1),
                      Rat(historical_average.n * thresholds.demand_spike, 100),
                      Rat(additional_cost.n, 1), now, 168,
                      "Demand Planning Team")>>, ratio)
        ELSE Returned(<<>>, ratio)

supplier_priority_always_medium(delay_hours) == "medium"

\* AlertPriority.HIGH if delay_hours >= 48 else AlertPriority.MEDIUM
supplier_priority(delay_hours) == IF delay_hours >= 48 THEN "high" ELSE "medium"

_analyze_supplier_event(event, now) ==
    LET data == event.data
        event_type == get(data, "supplier_event_type", Str(<<>>))
        delay_hours == float(get(data, "delay_hours", Num(0)))
        delay_cost_impact == float(get(data, "delay_cost_impact", Num(10000)))
    IN  IF ~delay_hours.ok THEN Raised("ValueError", NoRatio)
        \* event_type.lower() on a value that is not a string
        ELSE IF event_type.t \notin {"str", "numstr"}
        THEN Raised("AttributeError", NoRatio)
        ELSE IF /\ Contains(<<"d", "e", "l", "a", "y">>, lower(event_type.s))
                /\ delay_hours.n >= thresholds.supplier_delay
        THEN IF ~delay_cost_impact.ok THEN Raised("ValueError", NoRatio)
             ELSE Returned(<<SupplyChainAlert("SUPPLIER-DELAY", event,
                      "supplier_delay", supplier_priority(delay_hours.n),
                      Rat(delay_hours.n, 1), Rat(thresholds.supplier_delay, 1),
                      Rat(delay_cost_impact.n, 1), now, 12,
                      "Supplier Relations Team")>>, NoRatio)
        ELSE Returned(<<>>, NoRatio)

cost_fires_increase_only(new_cost, previous_cost) ==
    LET d == Div(new_cost - previous_cost, previous_cost)
    IN  previous_cost > 0 /\ GeqPct(d.r, thresholds.cost_variance)

\* cost_variance >= self.thresholds["cost_variance"]
cost_fires(new_cost, previous_cost) ==
    GeqPct(cost_variance(new_cost, previous_cost).r, thresholds.cost_variance)

_analyze_cost_event(event, now) ==
    LET data == event.data
        new_cost == float(get(data, "new_cost", Num(0)))
        previous_cost == float(get(data, "previous_cost", Num(1)))
        ratio == cost_variance(new_cost.n, previous_cost.n)
        budget_impact == float(get(data, "budget_impact", Num(5000)))
    IN  IF ~(new_cost.ok /\ previous_cost.ok)
        THEN Raised("ValueError", NoRatio)
        ELSE IF ~ratio.ok THEN Raised("ZeroDivisionError", NoRatio)
        ELSE IF cost_fires(new_cost.n, previous_cost.n)
        THEN IF ~budget_impact.ok THEN Raised("ValueError", ratio)
             ELSE Returned(<<SupplyChainAlert("COST-VAR", event,
                      "cost_variance", "medium",
                      Rat(new_cost.n, 1),
                      Rat(previous_cost.n * (100 + thresholds.cost_variance), 100),
                      Rat(budget_impact.n, 1), now, 120,
                      "Procurement Team")>>, ratio)
        ELSE Returned(<<>>, ratio)

_analyze_production_event(event, now) == Returned(<<>>, NoRatio)

_analyze_event_for_alerts_inventory_fallback(event, now) ==
    CASE event.event_type = "demand-forecasts" -> _analyze_demand_event(event, now)
      [] event.event_type = "supplier-events" -> _analyze_supplier_event(event, now)
      [] event.event_type = "cost-changes" -> _analyze_cost_event(event, now)
      [] event.event_type = "production-schedules" -> _analyze_production_event(event, now)
      [] OTHER -> _analyze_inventory_event(event, now)

\* the analyzer the event's topic selects; no analyzer for any other topic
_analyze_event_for_alerts(event, now) ==
    CASE event.event_type = "inventory-updates" -> _analyze_inventory_event(event, now)
      [] event.event_type = "demand-forecasts" -> _analyze_demand_event(event, now)
      [] event.event_type = "supplier-events" -> _analyze_supplier_event(event, now)
      [] event.event_type = "cost-changes" -> _analyze_cost_event(event, now)
      [] event.event_type = "production-schedules" -> _analyze_production_event(event, now)
      [] OTHER -> Returned(<<>>, NoRatio)

---------------------------------------------------------------------------
(* TeamsIntegrationEngine *)

AlertPriority == {"critical", "high", "medium", "low", "info"}

AlertType ==
    {"material_shortage", "supplier_delay", "demand_spike", "cost_variance",
     "forecast_update", "roi_milestone"}

channels ==
    [alerts      |-> "supply-chain-alerts",
     procurement |-> "procurement-decisions",
     forecasts   |-> "forecast-updates",
     business    |-> "business-impact",
     executive   |-> "executive-dashboard"]

_select_channel_type_first(alert) ==
    IF alert.alert_type = "roi_milestone" THEN channels.business
    ELSE IF alert.alert_type = "forecast_update" THEN channels.forecasts
    ELSE channels.alerts

_select_channel(alert) ==
    IF alert.priority = "critical" THEN channels.alerts
    ELSE IF alert.alert_type = "roi_milestone" THEN channels.business
    ELSE IF alert.alert_type = "forecast_update" THEN channels.forecasts
    ELSE channels.alerts

\* one _send_webhook_message call, as it is logged: ok is what it returned
Sent(kind, alert, channel, ok) ==
    [kind |-> kind,
     alert_id |-> alert.alert_id,
     alert_type |-> alert.alert_type,
     priority |-> alert.priority,
     channel |-> channel,
     ok |-> ok]

\* _send_critical_escalation: one message to the executive channel
_send_critical_escalation(alert, escalation_ok) ==
    <<Sent("escalation", alert, channels.executive, escalation_ok)>>

send_supply_chain_alert_needs_escalation(alert, card_ok, primary_ok, escalation_ok) ==
    IF ~card_ok THEN [success |-> FALSE, sent |-> <<>>]
    ELSE [success |-> primary_ok /\ (alert.priority = "critical" => escalation_ok),
          sent |-> <<Sent("primary", alert, _select_channel(alert), primary_ok)>>
                   \o IF primary_ok /\ alert.priority = "critical"
                      THEN _send_critical_escalation(alert, escalation_ok)
                      ELSE <<>>]

send_supply_chain_alert_escalate_always(alert, card_ok, primary_ok, escalation_ok) ==
    IF ~card_ok THEN [success |-> FALSE, sent |-> <<>>]
    ELSE [success |-> primary_ok,
          sent |-> <<Sent("primary", alert, _select_channel(alert), primary_ok)>>
                   \o _send_critical_escalation(alert, escalation_ok)]

\* card_ok: _create_adaptive_card returned (it raises on a field it cannot
\* format); primary_ok, escalation_ok: what the webhook sends returned
send_supply_chain_alert(alert, card_ok, primary_ok, escalation_ok) ==
    IF ~card_ok THEN [success |-> FALSE, sent |-> <<>>]
    ELSE [success |-> primary_ok,
          sent |-> <<Sent("primary", alert, _select_channel(alert), primary_ok)>>
                   \o IF primary_ok /\ alert.priority = "critical"
                      THEN _send_critical_escalation(alert, escalation_ok)
                      ELSE <<>>]

---------------------------------------------------------------------------
(* SupplyChainStreamProcessor: normalization, store, _process_event *)

\* a string holding the ISO text of time h: datetime.isoformat()
Iso(h) == [t |-> "iso", n |-> h, s |-> <<>>]

\* datetime.fromisoformat(x): raises on anything but an ISO string
fromisoformat(x) ==
    IF x.t = "iso" THEN [ok |-> TRUE, n |-> x.n] ELSE [ok |-> FALSE, n |-> 0]

\* f"{topic}_{datetime.utcnow().timestamp()}"
default_event_id(topic, now) == Str(<<topic, "_">> \o Digits(now))

\* a Kafka message: its topic and its deserialized value, a mapping or not
Message(topic, mapping, value) == [topic |-> topic, mapping |-> mapping, value |-> value]

NoEvent == SupplyChainEvent(Null, "", 0, Null, <<>>)

\* lines 173-183: event_data.get raises on a value that is no mapping,
\* fromisoformat on a timestamp that is no ISO string
Normalize(message, now) ==
    LET event_data == message.value
        timestamp == fromisoformat(get(event_data, "timestamp", Iso(now)))
    IN  IF ~message.mapping THEN [ok |-> FALSE, event |-> NoEvent]
        ELSE IF ~timestamp.ok THEN [ok |-> FALSE, event |-> NoEvent]
        ELSE [ok |-> TRUE,
              event |-> SupplyChainEvent(
                  get(event_data, "event_id", default_event_id(message.topic, now)),
                  message.topic,
                  timestamp.n,
                  get(event_data, "source", Str(<<"unknown">>)),
                  event_data)]

event_doc(event, now) ==
    [event_id |-> event.event_id,
     event_type |-> event.event_type,
     processing_status |-> event.processing_status,
     teams_notification_sent |-> event.teams_notification_sent]

\* redis setex(key, ttl, value): sets or overwrites the key
setex(c, key, value) ==
    [k \in DOMAIN c \cup {key} |-> IF k = key THEN value ELSE c[k]]

\* insert_one, then setex; an exception of either ends the try block
_store_event(d, c, event, now, insert_ok, setex_ok) ==
    IF ~insert_ok THEN [db |-> d, cache |-> c]
    ELSE [db |-> Append(d, event_doc(event, now)),
          cache |-> IF setex_ok
                    THEN setex(c, <<"event", event.event_id>>, event_doc(event, now))
                    ELSE c]

\* update_one: sets the fields of the first document with this event_id
_update_event_status(d, event, update_ok) ==
    LET same == {i \in DOMAIN d : d[i].event_id = event.event_id}
        first == CHOOSE i \in same : \A j \in same : i <= j
    IN  IF ~update_ok \/ same = {} THEN d
        ELSE [d EXCEPT ![first].processing_status = event.processing_status,
                       ![first].teams_notification_sent = event.teams_notification_sent]

\* update_one raised nothing and found a document with this event_id
update_matched(d, event, update_ok) ==
    update_ok /\ \E i \in DOMAIN d : d[i].event_id = event.event_id

RECURSIVE SendAlerts_engine_unchecked(_, _, _, _, _)
SendAlerts_engine_unchecked(alerts, i, engine, primary_ok, escalation_ok) ==
    IF i > Len(alerts) THEN [sent |-> <<>>, successes |-> 0]
    ELSE LET one == send_supply_chain_alert(alerts[i], TRUE, primary_ok[i], escalation_ok[i])
             rest == SendAlerts_engine_unchecked(alerts, i + 1, engine, primary_ok, escalation_ok)
         IN  [sent |-> one.sent \o rest.sent,
              successes |-> (IF one.success THEN 1 ELSE 0) + rest.successes]

\* the for loop of _process_event over alerts[i..]: the messages sent and the
\* number of alerts whose send returned success
RECURSIVE SendAlerts(_, _, _, _, _)
SendAlerts(alerts, i, engine, primary_ok, escalation_ok) ==
    IF i > Len(alerts) \/ ~engine THEN [sent |-> <<>>, successes |-> 0]
    ELSE LET one == send_supply_chain_alert(alerts[i], TRUE, primary_ok[i], escalation_ok[i])
             rest == SendAlerts(alerts, i + 1, engine, primary_ok, escalation_ok)
         IN  [sent |-> one.sent \o rest.sent,
              successes |-> (IF one.success THEN 1 ELSE 0) + rest.successes]

\* what the history keeps of an alert
AlertKey(alert) ==
    [alert_id |-> alert.alert_id, alert_type |-> alert.alert_type, priority |-> alert.priority]

count_error_and_event(m) ==
    [m EXCEPT !.processing_errors = @ + 1, !.events_processed = @ + 1]

\* the except of _process_event: one more processing error
count_error(m) == [m EXCEPT !.processing_errors = @ + 1]

count_event_with_alerts_only(m, alerts, successes) ==
    [m EXCEPT !.events_processed = @ + (IF alerts = 0 THEN 0 ELSE 1),
              !.alerts_generated = @ + alerts,
              !.teams_notifications_sent = @ + successes]

count_event_sends_attempted(m, alerts, successes) ==
    [m EXCEPT !.events_processed = @ + 1,
              !.alerts_generated = @ + alerts,
              !.teams_notifications_sent = @ + alerts]

\* the counters of an event that went through: one more per successful send,
\* one more event, len(alerts) more alerts
count_event(m, alerts, successes) ==
    [m EXCEPT !.events_processed = @ + 1,
              !.alerts_generated = @ + alerts,
              !.teams_notifications_sent = @ + successes]

_process_event(message) ==
    /\ Len(processed) < MaxMsgs
    /\ LET norm == Normalize(message, clock)
       IN  IF ~norm.ok
           THEN /\ metrics' = count_error(metrics)
                /\ processed' = Append(processed,
                       [message |-> message, returned |-> FALSE,
                        event_id |-> Null, alerts |-> {},
                        analyzer_error |-> "none", failed_sends |-> 0,
                        inserted |-> FALSE, updated |-> FALSE,
                        processing_status |-> "none",
                        teams_notification_sent |-> FALSE])
                /\ UNCHANGED <<db, cache, sendLog>>
           ELSE \E insert_ok, setex_ok, update_ok \in BOOLEAN :
                LET event == norm.event
                    stored == _store_event(db, cache, event, clock, insert_ok, setex_ok)
                    result == _analyze_event_for_alerts(event, clock)
                    alerts == result.alerts
                IN  \E primary_ok, escalation_ok \in [1..Len(alerts) -> BOOLEAN] :
                    LET out == SendAlerts(alerts, 1, teams_engine, primary_ok, escalation_ok)
                        done == [event EXCEPT
                                    !.teams_notification_sent = out.successes > 0,
                                    !.processing_status = "completed"]
                    IN  /\ sendLog' = sendLog \o out.sent
                        /\ metrics' = count_event(metrics, Len(alerts), out.successes)
                        /\ db' = _update_event_status(stored.db, done, update_ok)
                        /\ cache' = stored.cache
                        /\ processed' = Append(processed,
                               [message |-> message, returned |-> TRUE,
                                event_id |-> event.event_id,
                                alerts |-> {AlertKey(alerts[i]) : i \in DOMAIN alerts},
                                analyzer_error |-> result.error,
                                failed_sends |-> IF teams_engine
                                                 THEN Len(alerts) - out.successes
                                                 ELSE 0,
                                inserted |-> insert_ok,
                                updated |-> update_matched(stored.db, done, update_ok),
                                processing_status |-> done.processing_status,
                                teams_notification_sent |-> done.teams_notification_sent])
    \* utcnow() never reads the same microsecond in two calls
    /\ clock' = clock + 1
    /\ UNCHANGED <<teams_engine, analysis>>

---------------------------------------------------------------------------
(* send_supply_chain_alert called directly, as send_daily_forecast_summary
   and example_usage do *)

DirectAlerts ==
    [alert_id : {<<"SCF", Str(<<"a1">>)>>},
     alert_type : AlertType,
     priority : AlertPriority]

SendAlert(alert) ==
    /\ Cardinality({i \in DOMAIN sendLog : sendLog[i].kind = "primary"}) < MaxSends
    /\ \E card_ok, primary_ok, escalation_ok \in BOOLEAN :
           sendLog' = sendLog \o
               send_supply_chain_alert(alert, card_ok, primary_ok, escalation_ok).sent
    /\ UNCHANGED <<metrics, db, cache, clock, teams_engine, processed, analysis, loopVars>>

---------------------------------------------------------------------------
(* Inputs *)

Optional(S) == {Num(n) : n \in S} \cup {Null, Absent}
Numeric(S) == Optional(S) \cup {NumStr(2)}

Levels == (-1..MaxLevel) \cup {10, 11, 25, 26}

E1 == Str(<<"e1">>)
E2 == Str(<<"e2">>)

StrDelay == Str(<<"d", "e", "l", "a", "y">>)
StrDelayUpper == Str(<<"D", "E", "L", "A", "Y">>)
StrShipmentDelayed == Str(<<"s", "h", "i", "p", " ", "D", "e", "l", "a", "y", "e", "d">>)
StrCancelled == Str(<<"c", "a", "n", "c", "e", "l", "l", "e", "d">>)

InventoryPayloads ==
    [event_id : {E1},
     current_level : Numeric(Levels \cup {45}),
     normal_level : Numeric({-20, 0, 20, 600}),
     reorder_point : Optional({-1, 1, 60}),
     shortage_cost_impact : Optional({-5, 7}),
     potential_cost_impact : Optional({-5, 7})]

DemandPayloads ==
    [event_id : {E1},
     forecasted_demand : Numeric(Levels \cup {149, 150}),
     historical_average : Numeric({-2, 0, 2, 4}),
     additional_cost : Optional({-5, 7})]

SupplierPayloads ==
    [event_id : {E1},
     supplier_event_type :
         {Absent, Null, StrDelay, StrDelayUpper, StrShipmentDelayed, StrCancelled},
     delay_hours : Numeric((-1..MaxLevel) \cup {23, 24, 47, 48}),
     delay_cost_impact : Optional({-5, 7})]

CostPayloads ==
    [event_id : {E1},
     new_cost : Numeric((-1..MaxLevel) \cup {17, 18, 22, 23}),
     previous_cost : Numeric({-20, 0, 20}),
     budget_impact : Optional({-5, 7})]

OtherPayloads == [event_id : {E1}, current_level : {Absent, Num(1)}]

\* the messages of the pipeline runs: an event with and without an event_id,
\* with and without an alert, a value that is no mapping, a timestamp that
\* does not parse
PipelineMessages ==
    {Message("inventory-updates", TRUE, Strip(f)) :
        f \in [event_id : {Absent, E1},
               current_level : {Num(2)},
               normal_level : {Num(20)}]}
    \cup
    {Message("supplier-events", TRUE, Strip(f)) :
        f \in [event_id : {E2},
               supplier_event_type : {StrDelay},
               delay_hours : {Num(30)}]}
    \cup
    {Message("production-schedules", TRUE, Strip(f)) :
        f \in [event_id : {Absent}]}
    \cup
    {Message("cost-changes", TRUE, Strip(f)) :
        f \in [event_id : {E1}, timestamp : {Null}, new_cost : {Num(23)},
               previous_cost : {Num(20)}]}
    \cup
    {Message("demand-forecasts", FALSE, <<>>)}

\* one message of every topic, none with an event_id: an alert of every
\* analyzer, the analyzer without rules, a topic without analyzer, an
\* analyzer that raises, a value that is no mapping
TopicMessages ==
    {Message("inventory-updates", TRUE, Strip(f)) :
        f \in [current_level : {Num(4), Null}, normal_level : {Num(20)}]}
    \cup
    {Message("demand-forecasts", TRUE, Strip(f)) :
        f \in [forecasted_demand : {Num(6)}, historical_average : {Num(4)}]}
    \cup
    {Message("supplier-events", TRUE, Strip(f)) :
        f \in [supplier_event_type : {StrDelay}, delay_hours : {Num(30)}]}
    \cup
    {Message("cost-changes", TRUE, Strip(f)) :
        f \in [new_cost : {Num(23)}, previous_cost : {Num(20)}]}
    \cup
    {Message(topic, TRUE, Strip(f)) :
        topic \in {"production-schedules", "quality-reports"},
        f \in [current_level : {Num(2)}, normal_level : {Num(20)}]}

---------------------------------------------------------------------------
(* main(): initialize, start_processing, _update_metrics, _cleanup *)

NoMetrics ==
    [events_processed |-> 0, alerts_generated |-> 0,
     teams_notifications_sent |-> 0, processing_errors |-> 0]

\* main() has not run: no poll, no flush
NoLife ==
    [reason |-> "none", unavailable |-> {}, polled |-> 0, dropped |-> 0,
     stale |-> FALSE, polls |-> 0, flushes |-> 0,
     flushed |-> [any |-> FALSE, m |-> NoMetrics]]

\* get_processor_health has not been called
NoHealth ==
    [called |-> FALSE, reachable |-> FALSE, status |-> "none",
     metrics |-> NoMetrics, message |-> ""]

\* the connections of the processor, in the order _cleanup releases them
Resources == <<"teams", "consumer", "mongo", "redis">>

initialize_cache_optional(mongo_ok, redis_ok, teams_webhook_url, kafka_ok) ==
    LET databases == IF redis_ok THEN {"mongo", "redis"} ELSE {"mongo"}
        teams == IF teams_webhook_url THEN {"teams"} ELSE {}
    IN  IF ~mongo_ok
        THEN [ok |-> FALSE, conns |-> {}, teams_engine |-> FALSE]
        ELSE IF ~kafka_ok
        THEN [ok |-> FALSE, conns |-> databases \cup teams,
              teams_engine |-> teams_webhook_url]
        ELSE [ok |-> TRUE, conns |-> databases \cup teams \cup {"consumer"},
              teams_engine |-> teams_webhook_url]

\* initialize(): the two pings, the notifier session if a webhook URL is
\* configured, the consumer; the first exception ends it and is raised again.
\* Its result: whether it returned, the connections then open, whether
\* self.teams_engine is set.
initialize(mongo_ok, redis_ok, teams_webhook_url, kafka_ok) ==
    LET databases == IF ~mongo_ok THEN {}
                     ELSE IF ~redis_ok THEN {"mongo"}
                     ELSE {"mongo", "redis"}
        teams == IF teams_webhook_url THEN {"teams"} ELSE {}
    IN  IF ~(mongo_ok /\ redis_ok)
        THEN [ok |-> FALSE, conns |-> databases, teams_engine |-> FALSE]
        ELSE IF ~kafka_ok
        THEN [ok |-> FALSE, conns |-> databases \cup teams,
              teams_engine |-> teams_webhook_url]
        ELSE [ok |-> TRUE, conns |-> databases \cup teams \cup {"consumer"},
              teams_engine |-> teams_webhook_url]

\* await self._process_event(message): the result is not used and no
\* exception leaves the call, the for loop goes on
after_process_event_stop_on_error(returned) == IF returned THEN "batch" ELSE "exited"

after_process_event(returned) == "batch"

\* await self._update_metrics(): no exception leaves the call, the sleep and
\* the next poll follow
after_update_metrics_stop_on_error(setex_ok) == IF setex_ok THEN "poll" ELSE "exited"

after_update_metrics(setex_ok) == "poll"

MetricsKey == <<"supply_chain_processor:metrics", Null>>

\* _update_metrics: setex of the counters; an exception is logged
_update_metrics(c, m, setex_ok) == IF setex_ok THEN setex(c, MetricsKey, m) ELSE c

\* _cleanup: the releases in one try block, each if the connection was made;
\* the release number failing raises (0: none does) and ends the block.
\* Its result: the connections still open.
_cleanup(open, failing) ==
    IF failing = 0 \/ Resources[failing] \notin open THEN {}
    ELSE {Resources[i] : i \in {j \in failing..Len(Resources) : Resources[j] \in open}}

get_processor_health_always_healthy(c, redis_ok) ==
    IF ~redis_ok
    THEN [status |-> "error", metrics |-> NoMetrics, message |-> "exception"]
    ELSE [status |-> "healthy",
          metrics |-> IF MetricsKey \in DOMAIN c THEN c[MetricsKey] ELSE NoMetrics,
          message |-> ""]

\* get_processor_health: reads the metrics key of the cache; redis_ok: the
\* get raised nothing
get_processor_health(c, redis_ok) ==
    IF ~redis_ok
    THEN [status |-> "error", metrics |-> NoMetrics, message |-> "exception"]
    ELSE IF MetricsKey \in DOMAIN c
    THEN [status |-> "healthy", metrics |-> c[MetricsKey], message |-> ""]
    ELSE [status |-> "unknown", metrics |-> NoMetrics,
          message |-> "No metrics available"]

Min(a, b) == IF a < b THEN a ELSE b

\* the messages of the loop runs: a value that is no mapping, an analyzer
\* that raises, an alert to send
LoopMessages ==
    {Message("cost-changes", FALSE, <<>>)}
    \cup
    {Message("inventory-updates", TRUE, Strip(f)) :
        f \in [current_level : {Null, Num(4)}, normal_level : {Num(20)}]}

\* await processor.initialize()
Initialize ==
    /\ pc = "created"
    /\ \E mongo_ok, redis_ok, teams_webhook_url, kafka_ok \in BOOLEAN :
           LET init == initialize(mongo_ok, redis_ok, teams_webhook_url, kafka_ok)
           IN  /\ pc' = IF init.ok THEN "poll" ELSE "init_failed"
               /\ conns' = init.conns
               /\ teams_engine' = init.teams_engine
               /\ life' = [life EXCEPT
                      !.reason = IF init.ok THEN "none" ELSE "init",
                      !.unavailable =
                          (IF mongo_ok THEN {} ELSE {"mongo"})
                          \cup (IF redis_ok THEN {} ELSE {"redis"})
                          \cup (IF teams_webhook_url THEN {} ELSE {"teams"})
                          \cup (IF kafka_ok THEN {} ELSE {"kafka"})]
    /\ UNCHANGED <<metrics, db, cache, sendLog, clock, processed, analysis, batch, health>>

\* the messages of the runs with a health query: a value that is no mapping
\* and an event without alert
HealthMessages ==
    {Message("cost-changes", FALSE, <<>>),
     Message("production-schedules", TRUE, <<>>)}

\* self.consumer.poll(timeout_ms=1000) returns a batch of these messages
PollBatch(messages) ==
    /\ pc = "poll"
    /\ life.polls < MaxPolls
    /\ \E n \in 0..Min(MaxBatch, MaxMsgs - Len(processed)) :
       \E message_batch \in [1..n -> messages] :
           /\ batch' = message_batch
           /\ life' = [life EXCEPT !.polled = @ + n, !.polls = @ + 1]
    /\ pc' = "batch"
    /\ UNCHANGED <<metrics, db, cache, sendLog, clock, teams_engine, processed, analysis, conns, health>>

Poll == PollBatch(LoopMessages)

PollHealth == PollBatch(HealthMessages)

\* the next message of the batch
ProcessNext ==
    /\ pc = "batch"
    /\ batch # <<>>
    /\ _process_event(Head(batch))
    /\ batch' = Tail(batch)
    /\ pc' = after_process_event(processed'[Len(processed')].returned)
    /\ life' = [life EXCEPT !.stale = TRUE]
    /\ UNCHANGED <<conns, health>>

\* the batch is done: await self._update_metrics(), sleep
UpdateMetrics ==
    /\ pc = "batch"
    /\ batch = <<>>
    /\ \E setex_ok \in BOOLEAN :
           /\ cache' = _update_metrics(cache, metrics, setex_ok)
           /\ life' = [life EXCEPT
                  !.stale = @ /\ ~setex_ok,
                  !.flushes = @ + 1,
                  !.flushed = IF setex_ok THEN [any |-> TRUE, m |-> metrics] ELSE @]
           /\ pc' = after_update_metrics(setex_ok)
    /\ UNCHANGED <<metrics, db, sendLog, clock, teams_engine, processed, analysis, batch, conns, health>>

\* the exits of start_processing: the finally block runs _cleanup
Exit(reason) ==
    /\ \E failing \in 0..Len(Resources) : conns' = _cleanup(conns, failing)
    /\ pc' = "exited"
    /\ life' = [life EXCEPT !.reason = reason, !.dropped = Len(batch)]
    /\ UNCHANGED <<metrics, db, cache, sendLog, clock, teams_engine, processed, analysis, batch, health>>

\* a health query, at any time
GetProcessorHealth ==
    /\ ~health.called
    /\ \E redis_ok \in BOOLEAN :
           LET answer == get_processor_health(cache, redis_ok)
           IN  health' = [called |-> TRUE, reachable |-> redis_ok,
                          status |-> answer.status, metrics |-> answer.metrics,
                          message |-> answer.message]
    /\ UNCHANGED <<metrics, db, cache, sendLog, clock, teams_engine, processed, analysis, pc, batch, conns, life>>

\* KeyboardInterrupt, wherever the loop is
Stop == pc \in {"poll", "batch"} /\ Exit("stop")

\* self.consumer.poll raises
PollFails == pc = "poll" /\ Exit("poll")

---------------------------------------------------------------------------
(* Specifications *)

NoAnalysis == [called |-> FALSE, event |-> NoEvent, result |-> Returned(<<>>, NoRatio)]

Init ==
    /\ metrics = [events_processed |-> 0, alerts_generated |-> 0,
                  teams_notifications_sent |-> 0, processing_errors |-> 0]
    /\ db = <<>>
    /\ cache = <<>>
    /\ sendLog = <<>>
    /\ clock = 0
    /\ teams_engine \in BOOLEAN
    /\ processed = <<>>
    /\ analysis = NoAnalysis
    /\ pc = "detached"
    /\ batch = <<>>
    /\ conns = {}
    /\ life = NoLife
    /\ health = NoHealth

\* the ingestion of messages, one _process_event call at a time
Next ==
    \E message \in PipelineMessages : _process_event(message) /\ UNCHANGED loopVars

Spec == Init /\ [][Next]_vars

\* direct calls of the notification engine
InitSend == Init /\ teams_engine

NextSend == \E alert \in DirectAlerts : SendAlert(alert)

SpecSend == InitSend /\ [][NextSend]_vars

\* the ingestion of messages of every topic, the notifier configured
NextTopics ==
    \E message \in TopicMessages : _process_event(message) /\ UNCHANGED loopVars

SpecTopics == InitSend /\ [][NextTopics]_vars

\* main(): the processor constructed, nothing connected
InitLoop ==
    /\ metrics = [events_processed |-> 0, alerts_generated |-> 0,
                  teams_notifications_sent |-> 0, processing_errors |-> 0]
    /\ db = <<>>
    /\ cache = <<>>
    /\ sendLog = <<>>
    /\ clock = 0
    /\ teams_engine = FALSE
    /\ processed = <<>>
    /\ analysis = NoAnalysis
    /\ pc = "created"
    /\ batch = <<>>
    /\ conns = {}
    /\ life = NoLife
    /\ health = NoHealth

NextLoop ==
    \/ Initialize
    \/ Poll
    \/ ProcessNext
    \/ UpdateMetrics
    \/ Stop
    \/ PollFails

SpecLoop == InitLoop /\ [][NextLoop]_vars

\* the loop and a health query
NextHealth ==
    \/ Initialize
    \/ PollHealth
    \/ ProcessNext
    \/ UpdateMetrics
    \/ GetProcessorHealth

SpecHealth == InitLoop /\ [][NextHealth]_vars

\* one analyzer call on the event of a message
Analyze(topic, payloads) ==
    /\ ~analysis.called
    /\ \E f \in payloads :
           LET event == Normalize(Message(topic, TRUE, Strip(f)), clock).event
           IN  analysis' = [called |-> TRUE, event |-> event,
                            result |-> _analyze_event_for_alerts(event, clock)]
    /\ UNCHANGED <<metrics, db, cache, sendLog, clock, teams_engine, processed, loopVars>>

NextAnalyze ==
    \/ Analyze("inventory-updates", InventoryPayloads)
    \/ Analyze("demand-forecasts", DemandPayloads)
    \/ Analyze("supplier-events", SupplierPayloads)
    \/ Analyze("cost-changes", CostPayloads)
    \/ Analyze("production-schedules", OtherPayloads)
    \/ Analyze("quality-reports", OtherPayloads)

SpecAnalyze == InitSend /\ [][NextAnalyze]_vars

---------------------------------------------------------------------------
(* Properties of the analyzers, checked under SpecAnalyze *)

Called(topic) == analysis.called /\ analysis.event.event_type = topic

\* the numeric value of a payload field of the analyzed event
Field(key, default) == float(get(analysis.event.data, key, default))

Alerts == analysis.result.alerts

NoAlert == Alerts = <<>>

OneAlert(alert_type, priority) ==
    /\ Len(Alerts) = 1
    /\ Alerts[1].alert_type = alert_type
    /\ Alerts[1].priority = priority

\* C1 as claimed: for every inventory event with normal_level > 0 the
\* analyzer emits exactly one critical alert when current_level/normal_level
\* <= 0.10, exactly one high alert when the ratio is in (0.10, 0.25], and no
\* alert when the ratio is > 0.25.
C1_AsClaimed ==
    LET c == Field("current_level", Num(0))
        n == Field("normal_level", Num(100))
    IN  (Called("inventory-updates") /\ c.ok /\ n.ok /\ n.n > 0) =>
            /\ (10 * c.n <= n.n) => OneAlert("material_shortage", "critical")
            /\ (10 * c.n > n.n /\ 4 * c.n <= n.n) => OneAlert("material_shortage", "high")
            /\ (4 * c.n > n.n) => NoAlert

\* C1 amended: the same tiers, for every inventory event with normal_level > 0
\* whose reorder_point and whose cost-impact field of the selected tier
\* (shortage_cost_impact for critical, potential_cost_impact for high) are
\* absent or numeric; a field that does not convert to a number makes the
\* analyzer return no alert.
C1_InventoryTiers ==
    LET c == Field("current_level", Num(0))
        n == Field("normal_level", Num(100))
        p == Field("reorder_point", Num(20))
        shortage == Field("shortage_cost_impact", Num(50000))
        potential == Field("potential_cost_impact", Num(15000))
    IN  (Called("inventory-updates") /\ c.ok /\ n.ok /\ n.n > 0) =>
            /\ (10 * c.n <= n.n /\ p.ok /\ shortage.ok)
                   => OneAlert("material_shortage", "critical")
            /\ (10 * c.n > n.n /\ 4 * c.n <= n.n /\ p.ok /\ potential.ok)
                   => OneAlert("material_shortage", "high")
            /\ (4 * c.n > n.n) => NoAlert
            /\ (~p.ok) => NoAlert
            /\ (10 * c.n <= n.n /\ ~shortage.ok) => NoAlert
            /\ (10 * c.n > n.n /\ 4 * c.n <= n.n /\ ~potential.ok) => NoAlert

\* an inventory event exactly on the critical bound (2 of 20) whose alert is
\* critical
C1_Witness ==
    /\ Called("inventory-updates")
    /\ Field("current_level", Num(0)).n = 2
    /\ Field("normal_level", Num(100)).n = 20
    /\ OneAlert("material_shortage", "critical")

\* the analyzer reached its ratio computation: every float() before it converted
ReachedRatio(keys) ==
    \A k \in keys : float(get(analysis.event.data, k, Num(1))).ok

\* the baseline of the analyzed event is the number 0
ZeroBaseline(topic, keys, baseline) ==
    /\ Called(topic)
    /\ ReachedRatio(keys)
    /\ baseline \in DOMAIN analysis.event.data
    /\ Field(baseline, Num(1)).n = 0

RatioIs(a) ==
    /\ analysis.result.ratio.ok
    /\ RatEq(analysis.result.ratio.r, Rat(a, 1))
    /\ analysis.result.error # "ZeroDivisionError"

DelayTypes == {StrDelay, StrDelayUpper, StrShipmentDelayed}

\* C8 as claimed: for every supplier event the analyzer emits exactly one high
\* alert when delay_hours >= 48, exactly one medium alert when
\* 24 <= delay_hours < 48, and no alert when delay_hours < 24; the tier
\* depends on delay_hours alone.
C8_AsClaimed ==
    LET h == Field("delay_hours", Num(0))
    IN  (Called("supplier-events") /\ h.ok) =>
            /\ (h.n >= 48) => OneAlert("supplier_delay", "high")
            /\ (h.n >= 24 /\ h.n < 48) => OneAlert("supplier_delay", "medium")
            /\ (h.n < 24) => NoAlert

\* C8 amended: these tiers hold for every supplier event whose
\* supplier_event_type is a string containing "delay" (in any case) and whose
\* delay_cost_impact is absent or numeric; a supplier event with any other
\* supplier_event_type, or a delay_cost_impact that is no number, gets no
\* alert whatever its delay_hours.
C8_SupplierTiers ==
    LET h == Field("delay_hours", Num(0))
        type == get(analysis.event.data, "supplier_event_type", Str(<<>>))
        cost == Field("delay_cost_impact", Num(10000))
    IN  (Called("supplier-events") /\ h.ok) =>
            /\ (type \in DelayTypes /\ cost.ok) =>
                   /\ (h.n >= 48) => OneAlert("supplier_delay", "high")
                   /\ (h.n >= 24 /\ h.n < 48) => OneAlert("supplier_delay", "medium")
                   /\ (h.n < 24) => NoAlert
            /\ (type \notin DelayTypes \/ ~cost.ok) => NoAlert

\* a supplier event of type "ship Delayed" delayed by exactly 48 hours, whose
\* alert is high
C8_Witness ==
    /\ Called("supplier-events")
    /\ get(analysis.event.data, "supplier_event_type", Str(<<>>)) = StrShipmentDelayed
    /\ Field("delay_hours", Num(0)).n = 48
    /\ OneAlert("supplier_delay", "high")

\* C9 as claimed: for every demand event with historical_average > 0 the
\* analyzer emits exactly one demand_spike alert of priority high when
\* forecasted_demand/historical_average >= 1.50, and no alert otherwise.
C9_AsClaimed ==
    LET f == Field("forecasted_demand", Num(0))
        a == Field("historical_average", Num(100))
    IN  (Called("demand-forecasts") /\ f.ok /\ a.ok /\ a.n > 0) =>
            /\ (2 * f.n >= 3 * a.n) => OneAlert("demand_spike", "high")
            /\ (2 * f.n < 3 * a.n) => NoAlert

\* C9 amended: the same, for every demand event with historical_average > 0
\* whose additional_cost is absent or numeric; with an additional_cost that
\* is no number a ratio >= 1.50 gets no alert.
C9_DemandSpike ==
    LET f == Field("forecasted_demand", Num(0))
        a == Field("historical_average", Num(100))
        cost == Field("additional_cost", Num(25000))
    IN  (Called("demand-forecasts") /\ f.ok /\ a.ok /\ a.n > 0) =>
            /\ (2 * f.n >= 3 * a.n /\ cost.ok) => OneAlert("demand_spike", "high")
            /\ (2 * f.n >= 3 * a.n /\ ~cost.ok) => NoAlert
            /\ (2 * f.n < 3 * a.n) => NoAlert

\* a demand event exactly on the bound (3 against an average of 2) with its alert
C9_Witness ==
    /\ Called("demand-forecasts")
    /\ Field("forecasted_demand", Num(0)).n = 3
    /\ Field("historical_average", Num(100)).n = 2
    /\ OneAlert("demand_spike", "high")

\* C10 as claimed: for every cost event with previous_cost > 0 the analyzer
\* emits exactly one cost_variance alert of priority medium when
\* |new_cost - previous_cost| / previous_cost >= 0.15, increase or decrease
\* alike, and no alert when the ratio is < 0.15.
C10_AsClaimed ==
    LET n == Field("new_cost", Num(0))
        p == Field("previous_cost", Num(1))
    IN  (Called("cost-changes") /\ n.ok /\ p.ok /\ p.n > 0) =>
            /\ (100 * Abs(n.n - p.n) >= 15 * p.n) => OneAlert("cost_variance", "medium")
            /\ (100 * Abs(n.n - p.n) < 15 * p.n) => NoAlert

\* C10 amended: the same, for every cost event with previous_cost > 0 whose
\* budget_impact is absent or numeric; with a budget_impact that is no number
\* a variance >= 0.15 gets no alert.
C10_CostVariance ==
    LET n == Field("new_cost", Num(0))
        p == Field("previous_cost", Num(1))
        cost == Field("budget_impact", Num(5000))
    IN  (Called("cost-changes") /\ n.ok /\ p.ok /\ p.n > 0) =>
            /\ (100 * Abs(n.n - p.n) >= 15 * p.n /\ cost.ok)
                   => OneAlert("cost_variance", "medium")
            /\ (100 * Abs(n.n - p.n) >= 15 * p.n /\ ~cost.ok) => NoAlert
            /\ (100 * Abs(n.n - p.n) < 15 * p.n) => NoAlert

\* a cost decrease exactly on the bound (17 after 20) with its alert
C10_Witness ==
    /\ Called("cost-changes")
    /\ Field("new_cost", Num(0)).n = 17
    /\ Field("previous_cost", Num(1)).n = 20
    /\ OneAlert("cost_variance", "medium")

\* C11: every alert of the inventory analyzer, critical or high, carries the
\* event's current_level as current_value and the event's reorder_point as
\* threshold_value (20 when the payload has no reorder_point).
C11_InventoryAlertValues ==
    Called("inventory-updates") =>
        \A i \in DOMAIN Alerts :
            /\ Alerts[i].priority \in {"critical", "high"}
            /\ RatEq(Alerts[i].current_value, Rat(Field("current_level", Num(0)).n, 1))
            /\ RatEq(Alerts[i].threshold_value, Rat(Field("reorder_point", Num(20)).n, 1))

\* the scenario: current_level 45, normal_level 600, reorder_point 60 gives
\* one critical alert with current_value 45 and threshold_value 60
C11_Witness ==
    /\ Called("inventory-updates")
    /\ get(analysis.event.data, "current_level", Null) = Num(45)
    /\ get(analysis.event.data, "normal_level", Null) = Num(600)
    /\ get(analysis.event.data, "reorder_point", Null) = Num(60)
    /\ OneAlert("material_shortage", "critical")
    /\ Alerts[1].current_value = Rat(45, 1)
    /\ Alerts[1].threshold_value = Rat(60, 1)

\* the payload of the analyzed event has none of these fields
Omits(keys) == \A k \in keys : k \notin DOMAIN analysis.event.data

\* the numeric fields the analyzer of a topic reads
NumericFields(topic) ==
    CASE topic = "inventory-updates" ->
             {"current_level", "normal_level", "reorder_point",
              "shortage_cost_impact", "potential_cost_impact"}
      [] topic = "demand-forecasts" ->
             {"forecasted_demand", "historical_average", "additional_cost"}
      [] topic = "supplier-events" -> {"delay_hours", "delay_cost_impact"}
      [] topic = "cost-changes" -> {"new_cost", "previous_cost", "budget_impact"}
      [] OTHER -> {}

\* C13 as claimed: for every category, an event whose payload has none of
\* the analyzer's numeric fields produces no alert and no error.
C13_AsClaimed ==
    \A topic \in {"inventory-updates", "demand-forecasts", "supplier-events", "cost-changes"} :
        (Called(topic) /\ Omits(NumericFields(topic))) =>
            NoAlert /\ analysis.result.error = "none"

\* C21 as claimed: every alert of every analyzer, whatever the payload, has
\* non-negative current_value, threshold_value and estimated_cost_impact.
C21_AsClaimed ==
    analysis.called =>
        \A i \in DOMAIN Alerts :
            /\ Alerts[i].current_value.num * Alerts[i].current_value.den >= 0
            /\ Alerts[i].threshold_value.num * Alerts[i].threshold_value.den >= 0
            /\ Alerts[i].estimated_cost_impact.num * Alerts[i].estimated_cost_impact.den >= 0

---------------------------------------------------------------------------
(* Properties of the notification engine, checked under SpecSend *)

\* C2: an escalation message goes to the executive channel, only for an alert
\* of priority critical, and only right after the primary send of the same
\* alert returned success, whatever the notifier answers.
C2_EscalationAfterPrimarySuccess ==
    \A i \in DOMAIN sendLog :
        sendLog[i].kind = "escalation" =>
            /\ sendLog[i].priority = "critical"
            /\ sendLog[i].channel = "executive-dashboard"
            /\ i > 1
            /\ sendLog[i - 1].kind = "primary"
            /\ sendLog[i - 1].alert_id = sendLog[i].alert_id
            /\ sendLog[i - 1].ok

\* a critical alert whose primary send succeeded and whose escalation was
\* sent, after an alert whose primary send failed
C2_Witness ==
    /\ Len(sendLog) = 3
    /\ sendLog[1].kind = "primary" /\ ~sendLog[1].ok /\ sendLog[1].priority = "critical"
    /\ sendLog[2].kind = "primary" /\ sendLog[2].ok
    /\ sendLog[3].kind = "escalation" /\ ~sendLog[3].ok

\* C6: the channel of an alert is decided by its priority and type alone:
\* critical goes to the alerts channel whatever the type; otherwise
\* roi_milestone goes to the business channel, forecast_update to the
\* forecasts channel, and every other alert to the alerts channel.
C6_SelectChannel ==
    \A i \in DOMAIN sendLog :
        sendLog[i].kind = "primary" =>
            sendLog[i].channel =
                CASE sendLog[i].priority = "critical" -> "supply-chain-alerts"
                  [] sendLog[i].priority # "critical"
                         /\ sendLog[i].alert_type = "roi_milestone" -> "business-impact"
                  [] sendLog[i].priority # "critical"
                         /\ sendLog[i].alert_type = "forecast_update" -> "forecast-updates"
                  [] OTHER -> "supply-chain-alerts"

\* a critical roi_milestone sent to the alerts channel and an info
\* roi_milestone sent to the business channel
C6_Witness ==
    /\ \E i \in DOMAIN sendLog :
           /\ sendLog[i].kind = "primary"
           /\ sendLog[i].priority = "critical"
           /\ sendLog[i].alert_type = "roi_milestone"
           /\ sendLog[i].channel = "supply-chain-alerts"
    /\ \E i \in DOMAIN sendLog :
           /\ sendLog[i].kind = "primary"
           /\ sendLog[i].priority = "info"
           /\ sendLog[i].alert_type = "roi_milestone"
           /\ sendLog[i].channel = "business-impact"

---------------------------------------------------------------------------
(* Properties of the pipeline, checked under Spec *)

\* the calls of _process_event that returned True
Completed == {i \in DOMAIN processed : processed[i].returned}

\* C3 as claimed: events_processed equals the number of distinct event_ids
\* that completed successfully; a second processing of an event_id does not
\* increment it.
C3_AsClaimed ==
    metrics.events_processed = Cardinality({processed[i].event_id : i \in Completed})

\* C4 as claimed: processing the same message again yields the same set of
\* alert_ids, also for a message whose payload carries no event_id.
C4_AsClaimed ==
    \A i, j \in Completed :
        processed[i].message = processed[j].message =>
            processed[i].alerts = processed[j].alerts

\* the alert_id prefix of a rule and its severity tier
RulePrefix(alert_type, priority) ==
    CASE alert_type = "material_shortage" /\ priority = "critical" -> "INV-CRIT"
      [] alert_type = "material_shortage" /\ priority = "high" -> "INV-WARN"
      [] alert_type = "demand_spike" -> "DEMAND-SPIKE"
      [] alert_type = "supplier_delay" -> "SUPPLIER-DELAY"
      [] alert_type = "cost_variance" -> "COST-VAR"
      [] OTHER -> ""

\* C4 amended: every alert_id is the rule-and-tier prefix followed by the
\* event_id, and processing again a message whose payload carries an event_id
\* yields the same set of alert_ids; a message without an event_id gets an
\* event_id made of the topic and the time of processing, so its alerts get
\* other ids when it is processed at another time.
C4_AlertIdsDeterministic ==
    /\ \A i \in Completed : \A a \in processed[i].alerts :
           a.alert_id = <<RulePrefix(a.alert_type, a.priority), processed[i].event_id>>
    /\ \A i, j \in Completed :
           (/\ processed[i].message = processed[j].message
            /\ "event_id" \in DOMAIN processed[i].message.value)
               => processed[i].alerts = processed[j].alerts

\* a message with an event_id and an alert, processed a second time
C4_Witness ==
    /\ Len(processed) = 2
    /\ Completed = {1, 2}
    /\ processed[1].message = processed[2].message
    /\ "event_id" \in DOMAIN processed[1].message.value
    /\ processed[1].alerts # {}
    /\ processed[1].alerts = processed[2].alerts

\* C5 as claimed: the durable store holds at most one event record per
\* event_id, also after a message is delivered again.
C5_AsClaimed ==
    \A i, j \in DOMAIN db : db[i].event_id = db[j].event_id => i = j

\* C16 as claimed: every stored event record leaves status pending once the
\* processing of its event has ended; stated for the runs in which every
\* insert_one and update_one succeeded.
C16_AsClaimed ==
    (\A i \in Completed : processed[i].inserted /\ processed[i].updated) =>
        \A d \in DOMAIN db : db[d].processing_status # "pending"

\* C19 as claimed: normalization fails only when the value of the message is
\* not a mapping; every mapping yields an event and is not counted as a
\* processing error.
C19_AsClaimed ==
    /\ \A i \in DOMAIN processed :
           processed[i].message.mapping => processed[i].returned
    /\ metrics.processing_errors =
           Cardinality({i \in DOMAIN processed : ~processed[i].message.mapping})

\* the stored records that are records of an alert
AlertRecords == {d \in DOMAIN db : "alert_id" \in DOMAIN db[d]}

\* C22 as claimed: every alert whose dispatch was attempted is recorded in
\* the store with a delivery_status matching its primary send: sent when the
\* notifier returned success, failed when it returned failure.
C22_AsClaimed ==
    \A i \in DOMAIN sendLog :
        sendLog[i].kind = "primary" =>
            \E d \in AlertRecords :
                /\ db[d].alert_id = sendLog[i].alert_id
                /\ db[d].delivery_status = IF sendLog[i].ok THEN "sent" ELSE "failed"

\* the primary sends the notifier answered with success
SuccessfulSends == {j \in DOMAIN sendLog : sendLog[j].kind = "primary" /\ sendLog[j].ok}

\* C26: a _process_event call whose normalization fails adds one to
\* processing_errors and leaves events_processed, alerts_generated,
\* teams_notifications_sent, the store and the cache as they were, and sends
\* nothing.
C26_NormalizationFailureFrame ==
    [][(/\ Len(processed') = Len(processed) + 1
        /\ ~processed'[Len(processed')].returned)
           => /\ metrics' = [metrics EXCEPT !.processing_errors = @ + 1]
              /\ db' = db
              /\ cache' = cache
              /\ sendLog' = sendLog]_vars

\* a stored and notified event, then a message whose normalization failed
C26_Witness ==
    /\ Len(processed) = 2
    /\ processed[1].returned /\ processed[1].inserted
    /\ ~processed[2].returned
    /\ metrics.processing_errors = 1
    /\ metrics.events_processed = 1
    /\ Len(db) = 1
    /\ Len(sendLog) >= 1

\* C28: every _process_event call adds one to exactly one of
\* events_processed and processing_errors, so their sum is the number of
\* messages handled, and no counter ever decreases.
C28_OneCounterPerMessage ==
    [][/\ metrics'.events_processed + metrics'.processing_errors = Len(processed')
       /\ Len(processed') = Len(processed) + 1 =>
              \/ /\ metrics'.events_processed = metrics.events_processed + 1
                 /\ metrics'.processing_errors = metrics.processing_errors
              \/ /\ metrics'.events_processed = metrics.events_processed
                 /\ metrics'.processing_errors = metrics.processing_errors + 1
       /\ \A k \in DOMAIN metrics : metrics'[k] >= metrics[k]]_vars

\* one message went through without an alert and one failed
C28_Witness ==
    /\ Len(processed) = 2
    /\ processed[1].returned /\ processed[1].alerts = {}
    /\ ~processed[2].returned
    /\ metrics.events_processed = 1
    /\ metrics.processing_errors = 1

\* C30: the outcome of an escalation never changes the outcome of its
\* alert: teams_notifications_sent counts the primary sends that succeeded,
\* one per alert, whether the escalation that followed succeeded or failed,
\* and an escalation is sent only for such an alert and is never counted.
C30_EscalationNotCounted ==
    /\ metrics.teams_notifications_sent = Cardinality(SuccessfulSends)
    /\ \A j \in DOMAIN sendLog :
           sendLog[j].kind = "escalation" =>
               /\ j - 1 \in SuccessfulSends
               /\ sendLog[j - 1].alert_id = sendLog[j].alert_id

\* a critical alert whose primary send succeeded and whose escalation failed
C30_Witness ==
    /\ Len(sendLog) = 2
    /\ sendLog[1].kind = "primary" /\ sendLog[1].ok
    /\ sendLog[1].priority = "critical"
    /\ sendLog[2].kind = "escalation" /\ ~sendLog[2].ok
    /\ metrics.teams_notifications_sent = 1

---------------------------------------------------------------------------
(* Properties of the pipeline on every topic, checked under SpecTopics *)

\* the alert type of the analyzer of a topic
AnalyzerAlertType(topic) ==
    CASE topic = "inventory-updates" -> {"material_shortage"}
      [] topic = "demand-forecasts" -> {"demand_spike"}
      [] topic = "supplier-events" -> {"supplier_delay"}
      [] topic = "cost-changes" -> {"cost_variance"}
      [] OTHER -> {}

\* the stored documents of an event_id
Docs(event_id) == {i \in DOMAIN db : db[i].event_id = event_id}

\* C12: an event gets the alerts of the analyzer of its topic and of no
\* other; an event of topic production-schedules or of a topic without
\* analyzer gets no alert, raises nothing, is counted in events_processed and
\* is marked completed, in memory and, when its two store writes succeed, in
\* the store.
C12_Dispatch ==
    /\ \A i \in DOMAIN processed :
           LET p == processed[i]
           IN  /\ \A a \in p.alerts : a.alert_type \in AnalyzerAlertType(p.message.topic)
               /\ AnalyzerAlertType(p.message.topic) = {} =>
                      /\ p.returned
                      /\ p.alerts = {}
                      /\ p.analyzer_error = "none"
                      /\ p.processing_status = "completed"
                      /\ (p.inserted /\ p.updated) =>
                             \A d \in Docs(p.event_id) :
                                 db[d].processing_status = "completed"
    /\ metrics.events_processed = Len(processed)
    /\ metrics.processing_errors = 0

\* an event without analyzer and an event with one have been processed
C12_Witness ==
    /\ Len(processed) = 2
    /\ processed[1].message.topic = "quality-reports"
    /\ processed[1].inserted /\ processed[1].updated
    /\ db[1].processing_status = "completed"
    /\ processed[2].message.topic = "cost-changes"
    /\ processed[2].alerts # {}
    /\ metrics.events_processed = 2
\* the calls whose analyzer raised, and the notifier sends that failed
AnalyzerFailures == {i \in DOMAIN processed : processed[i].analyzer_error # "none"}
FailedSends == {i \in DOMAIN sendLog : sendLog[i].kind = "primary" /\ ~sendLog[i].ok}

\* C15 as claimed: every per-event and per-alert error is counted: each
\* analyzer failure and each failed notifier send increments
\* processing_errors by one.
C15_AsClaimed ==
    metrics.processing_errors =
        Cardinality(DOMAIN processed \ Completed)
        + Cardinality(AnalyzerFailures) + Cardinality(FailedSends)

\* the inventory messages whose current_level is null: float(None) raises
NullLevel(p) ==
    /\ p.message.topic = "inventory-updates"
    /\ get(p.message.value, "current_level", Num(0)) = Null

\* C25: when the analyzer of an event raises, the event gets no alert and no
\* notification and is still counted in events_processed and marked
\* completed, in memory and, when its store writes succeed, in the store.
C25_AnalyzerFailure ==
    /\ \A i \in DOMAIN processed :
           LET p == processed[i]
           IN  (NullLevel(p) \/ i \in AnalyzerFailures) =>
                   /\ p.analyzer_error # "none"
                   /\ p.returned
                   /\ p.alerts = {}
                   /\ ~p.teams_notification_sent
                   /\ \A j \in DOMAIN sendLog : sendLog[j].alert_id[2] # p.event_id
                   /\ p.processing_status = "completed"
                   /\ (p.inserted /\ p.updated) =>
                          \A d \in Docs(p.event_id) :
                              /\ db[d].processing_status = "completed"
                              /\ ~db[d].teams_notification_sent
    /\ metrics.events_processed = Len(processed)

\* an event whose analyzer raised is stored as completed, after an event
\* with an alert
C25_Witness ==
    /\ Len(processed) = 2
    /\ processed[1].alerts # {}
    /\ NullLevel(processed[2])
    /\ processed[2].analyzer_error = "ValueError"
    /\ processed[2].inserted /\ processed[2].updated
    /\ Len(db) = 2
    /\ db[2].processing_status = "completed"
    /\ metrics.events_processed = 2
    /\ metrics.alerts_generated = 1

\* C29: teams_notifications_sent never exceeds alerts_generated and counts
\* the alerts whose primary send returned success; the
\* teams_notification_sent flag of an event is true exactly when one of its
\* alerts was sent with success.
C29_NotificationCounts ==
    /\ metrics.teams_notifications_sent <= metrics.alerts_generated
    /\ metrics.teams_notifications_sent = Cardinality(SuccessfulSends)
    /\ \A i \in Completed :
           processed[i].teams_notification_sent <=>
               \E j \in SuccessfulSends : sendLog[j].alert_id[2] = processed[i].event_id

\* two alerts, the send of one failed
C29_Witness ==
    /\ Len(processed) = 2
    /\ processed[1].alerts # {} /\ processed[1].teams_notification_sent
    /\ processed[2].alerts # {} /\ ~processed[2].teams_notification_sent
    /\ processed[2].failed_sends = 1
    /\ metrics.alerts_generated = 2
    /\ metrics.teams_notifications_sent = 1

---------------------------------------------------------------------------
(* Properties of main() and its loop, checked under SpecLoop *)

\* C14: no error of a message ends the loop or skips later work: the loop is
\* left only by a stop signal or a failing poll, while it runs every polled
\* message is either processed or still waiting in the batch, and the next
\* poll comes only when the batch is empty.
C14_LoopSurvivesMessageErrors ==
    /\ pc = "exited" => life.reason \in {"stop", "poll"}
    /\ pc \in {"poll", "batch"} => Len(processed) + Len(batch) = life.polled
    /\ pc = "poll" => batch = <<>>

\* a value that is no mapping, then a message whose insert and whose send
\* failed, and the loop is back at its poll
C14_Witness ==
    /\ pc = "poll"
    /\ life.polled = 2
    /\ Len(processed) = 2
    /\ ~processed[1].returned
    /\ processed[2].returned
    /\ processed[2].failed_sends = 1
    /\ ~processed[2].inserted

\* C17 as claimed: after a stop signal every message of the batch in flight
\* has been processed and the counters have been flushed after the last of
\* them, before the connections are released.
C17_AsClaimed ==
    (pc = "exited" /\ life.reason = "stop") =>
        life.dropped = 0 /\ ~life.stale

\* C18 as claimed: every connection the processor acquired is released on
\* every exit path: a failed initialization, a stop, a failing poll, a release
\* that fails.
C18_AsClaimed ==
    pc \in {"exited", "init_failed"} => conns = {}

\* C20 as claimed: if the source, the store, the cache or the notifier is
\* unavailable at startup, initialization fails and the loop never starts.
C20_AsClaimed ==
    life.unavailable # {} =>
        pc = "init_failed" /\ life.polled = 0 /\ processed = <<>>

\* C20 amended: if the store, the cache or the source is unreachable at
\* startup, initialization fails and the loop never starts: no message is
\* polled and no event is processed; a notifier that is not configured does
\* not fail initialization, the loop starts with self.teams_engine unset.
C20_StartupFailure ==
    /\ life.unavailable \cap {"mongo", "redis", "kafka"} # {} =>
           pc = "init_failed" /\ life.polled = 0 /\ processed = <<>>
    /\ (pc # "created" /\ life.unavailable \subseteq {"teams"}) =>
           /\ pc # "init_failed"
           /\ teams_engine = ("teams" \notin life.unavailable)

\* the cache alone is unreachable at startup
C20_Witness ==
    /\ pc = "init_failed"
    /\ life.unavailable = {"redis"}
    /\ life.polled = 0

\* C23 as claimed: the cache is never the only copy: every event document
\* and every metrics snapshot in the cache has a record in the durable store.
C23_AsClaimed ==
    \A k \in DOMAIN cache :
        IF k = MetricsKey
        THEN \E d \in DOMAIN db : "events_processed" \in DOMAIN db[d]
        ELSE \E d \in DOMAIN db : db[d].event_id = k[2]

\* C27: a cycle is poll, drain, flush: while the batch is drained every
\* polled message is processed or waiting in it, the counters are flushed
\* once per poll, after the last message of the batch and before the next
\* poll, and a flush that fails does not end the loop.
C27_PollingCycle ==
    /\ pc = "poll" => batch = <<>> /\ life.flushes = life.polls
    /\ pc = "batch" =>
           /\ life.flushes + 1 = life.polls
           /\ Len(processed) + Len(batch) = life.polled
    /\ pc = "exited" =>
           /\ life.reason \in {"stop", "poll"}
           /\ life.polls - life.flushes \in {0, 1}

\* two cycles with a message each, both flushes failed, the loop is at its
\* next poll
C27_Witness ==
    /\ pc = "poll"
    /\ life.polls = 2
    /\ life.flushes = 2
    /\ Len(processed) = 2
    /\ life.stale
    /\ ~life.flushed.any

\* the runs in which everything but the notifier was available at startup
\* and no webhook URL is configured
NoNotifier == pc # "created" /\ life.unavailable = {"teams"}

\* C31: without a configured notifier the processor starts and processes
\* events: alerts are derived and counted, events are counted and marked
\* completed, teams_notifications_sent stays 0, nothing is sent or
\* escalated, and an alert that is not delivered is no processing error.
C31_NoNotifier ==
    NoNotifier =>
        /\ pc # "init_failed"
        /\ ~teams_engine
        /\ sendLog = <<>>
        /\ metrics.teams_notifications_sent = 0
        /\ metrics.alerts_generated =
               Cardinality({i \in DOMAIN processed : processed[i].alerts # {}})
        /\ metrics.events_processed = Cardinality(Completed)
        /\ metrics.processing_errors = Cardinality(DOMAIN processed \ Completed)
        /\ \A i \in Completed :
               /\ processed[i].processing_status = "completed"
               /\ ~processed[i].teams_notification_sent
               /\ processed[i].failed_sends = 0
               /\ (processed[i].inserted /\ processed[i].updated) =>
                      \A d \in Docs(processed[i].event_id) :
                          /\ db[d].processing_status = "completed"
                          /\ ~db[d].teams_notification_sent

\* no notifier, an event with an alert went through and is stored completed
C31_Witness ==
    /\ NoNotifier
    /\ pc = "poll"
    /\ Len(processed) = 1
    /\ processed[1].alerts # {}
    /\ processed[1].inserted /\ processed[1].updated
    /\ metrics.alerts_generated = 1
    /\ metrics.events_processed = 1
    /\ metrics.processing_errors = 0

---------------------------------------------------------------------------
(* Properties of get_processor_health, checked under SpecHealth *)

\* C24: get_processor_health answers error with a message when the cache
\* cannot be reached, healthy with the snapshot of the last successful flush
\* when there is one, unknown when there is none, and leaves the cache as it
\* was.
C24_ProcessorHealth ==
    [][(~health.called /\ health'.called) =>
           /\ cache' = cache
           /\ IF ~health'.reachable
              THEN health'.status = "error" /\ health'.message # ""
              ELSE IF life.flushed.any
              THEN health'.status = "healthy" /\ health'.metrics = life.flushed.m
              ELSE health'.status = "unknown"]_vars

\* a query answered with the snapshot of the first cycle while the counters
\* have moved on
C24_Witness ==
    /\ health.called
    /\ health.status = "healthy"
    /\ health.metrics.events_processed = 1
    /\ metrics.events_processed = 2

====
